---- MODULE Spec2Model ----
(***************************************************************************)
(* Evaluation, alpha-beta search and hint tiering of the chess puzzle      *)
(* tutor (src/main.py).  The chess rules (python-chess: legal moves, push, *)
(* pop, outcome) are an external capability; here a position is a node of  *)
(* a finite game tree and the board is the path of moves played from the   *)
(* root.  The search and the hint generator are run step by step on an     *)
(* explicit call stack, so that the board is observable during a search.   *)
(***************************************************************************)
EXTENDS Integers, Sequences, FiniteSets, TLC

VARIABLES
    game,     \* the position a request was built from (chess.Board(fen)) and what follows it
    board,    \* the one mutable chess.Board: [move_stack, turn]
    frames,   \* the Python call stack of the running call, innermost last
    call,     \* the running (or last finished) outermost call and its arguments
    ret,      \* what the outermost call returned or raised; kind "none" while it runs
    npush,    \* history: board.push calls made by the outermost call
    npop,     \* history: board.pop calls made by the outermost call
    pruned    \* history: some loop of the outermost call was left by "break" with moves untried

vars == <<game, board, frames, call, ret, npush, npop, pruned>>

----------------------------------------------------------------------------
(* Bounds of the model *)

\* greatest depth handed to find_best_move and minimax by a direct call
MaxDepth == 3
\* longest game, in plies, from the position of a request
MaxPly == 3

----------------------------------------------------------------------------
(* Program constants *)

\* float('inf'): above every score evaluate_board returns
PosInf == 1000000
NegInf == 0 - PosInf
\* the score of a decisive result
MateScore == 10000
\* find_best_move(board, depth=4)
DefaultDepth == 4
\* minimax(board, depth=4, ...) in get_hint
EvalDepth == 4
\* best_move = None
None == 0

piece_values == [P |-> 1, N |-> 3, B |-> 3, R |-> 5, Q |-> 9, K |-> 0]

----------------------------------------------------------------------------
(* The rules capability: positions, moves, outcome *)

Other(color) == IF color = "white" THEN "black" ELSE "white"

Piece(t, c) == [piece_type |-> t, color |-> c]

\* the layouts of the positions, by name: the pieces on the board
Layouts ==
    [Level   |-> << Piece("K", "white"), Piece("B", "white"), Piece("N", "white"),
                    Piece("P", "white"), Piece("K", "black"), Piece("B", "black"),
                    Piece("N", "black"), Piece("P", "black") >>,
     WhiteUp |-> << Piece("K", "white"), Piece("Q", "white"), Piece("R", "white"),
                    Piece("K", "black"), Piece("R", "black"), Piece("P", "black") >>,
     BlackUp |-> << Piece("K", "white"), Piece("N", "white"),
                    Piece("K", "black"), Piece("Q", "black") >>,
     Bare    |-> << Piece("K", "white"), Piece("K", "black") >>]

\* a position: how the game stands there, its layout, and the positions its
\* legal moves lead to, in the order legal_moves yields them
Node(kind, layout, kids) == [kind |-> kind, layout |-> layout, kids |-> kids]

\* checkmate and stalemate: the side to move has no legal move
Ended(layout) == {Node("checkmate", layout, <<>>), Node("stalemate", layout, <<>>)}

\* the positions one move before the end of the game
Twigs ==
    {Node("ongoing", "WhiteUp", <<Node("stalemate", "WhiteUp", <<>>),
                                  Node("checkmate", "WhiteUp", <<>>)>>),
     Node("ongoing", "BlackUp", <<Node("checkmate", "BlackUp", <<>>),
                                  Node("stalemate", "BlackUp", <<>>)>>)}

\* insufficient material: the game is over and a move is still legal
Dead == Node("dead", "Bare", <<Node("dead", "Bare", <<>>)>>)

\* game trees of at most h plies: two moves at every position that is not the
\* end, one of them leading to a position at most one move before the end
RECURSIVE Trees(_)
Trees(h) ==
    IF h = 0 THEN Ended("WhiteUp")
    ELSE IF h = 1 THEN Ended("WhiteUp") \cup Twigs
    ELSE Ended("WhiteUp")
         \cup {Node("ongoing", "Level", <<a, b>>) : a \in Trees(h - 1), b \in Trees(1)}
         \cup {Node("ongoing", "Level", <<a, b>>) : a \in Trees(1), b \in Trees(h - 1)}

Games == [root : UNION {Trees(h) : h \in 0..MaxPly} \cup {Dead},
          turn : {"white", "black"}]

RECURSIVE Sub(_, _)
Sub(tree, path) ==
    IF path = <<>> THEN tree ELSE Sub(tree.kids[Head(path)], Tail(path))

\* the position on the board b
Pos(b) == Sub(game.root, b.move_stack)

NewBoard == [move_stack |-> <<>>, turn |-> game.turn]

\* board.piece_map().values()
piece_map(b) == Layouts[Pos(b).layout]

legal_moves(b) == [i \in 1..Len(Pos(b).kids) |-> i]

push(b, move) == [move_stack |-> Append(b.move_stack, move), turn |-> Other(b.turn)]

pop(b) == [move_stack |-> SubSeq(b.move_stack, 1, Len(b.move_stack) - 1),
           turn |-> Other(b.turn)]

is_game_over(b) == Pos(b).kind # "ongoing"

\* Outcome.winner: the side that gave checkmate (the side not to move), or None
winner(b) == IF Pos(b).kind = "checkmate" THEN Other(b.turn) ELSE "none"

\* board.outcome(): None while the game goes on
outcome(b) == IF is_game_over(b)
              THEN [termination |-> Pos(b).kind, winner |-> winner(b)]
              ELSE [termination |-> "none", winner |-> "none"]

result(b) == IF ~is_game_over(b) THEN "*"
             ELSE IF winner(b) = "white" THEN "1-0"
             ELSE IF winner(b) = "black" THEN "0-1"
             ELSE "1/2-1/2"

----------------------------------------------------------------------------
(* evaluate_board *)

RECURSIVE Sum(_)
Sum(s) == IF s = <<>> THEN 0 ELSE Head(s) + Sum(Tail(s))

\* evaluate_board without its terminal check: material always
evaluate_material_only(b) ==
    Sum([i \in 1..Len(piece_map(b)) |->
           piece_values[piece_map(b)[i].piece_type]
           * (IF piece_map(b)[i].color = "white" THEN 1 ELSE 0 - 1)])

\* evaluate_board with the two decisive results exchanged
evaluate_results_swapped(b) ==
    IF is_game_over(b)
    THEN IF result(b) = "0-1" THEN MateScore
         ELSE IF result(b) = "1-0" THEN 0 - MateScore
         ELSE 0
    ELSE evaluate_material_only(b)

evaluate_board(b) ==
    IF is_game_over(b)
    THEN IF result(b) = "1-0" THEN MateScore
         ELSE IF result(b) = "0-1" THEN 0 - MateScore
         ELSE 0
    ELSE Sum([i \in 1..Len(piece_map(b)) |->
                piece_values[piece_map(b)[i].piece_type]
                * (IF piece_map(b)[i].color = "white" THEN 1 ELSE 0 - 1)])

----------------------------------------------------------------------------
(* The call stack *)

\* the hint tiers the /hint route accepts (ge=1, le=3)
Tiers == {1, 2, 3}

Depths == 0..MaxDepth

NoText == [tier |-> 0, note |-> ""]

\* a frame holds the locals of one call; pc is where the call stands:
\* "entry" (just called), "loop" (at the head of its for loop), "wait" (inside
\* a call it made), "got_score"/"got_move"/"got_text" (that call returned),
\* "trial" (generate_hint has pushed its move)
NewFrame(fn) ==
    [fn |-> fn, pc |-> "entry", depth |-> 0, alpha |-> NegInf, beta |-> PosInf,
     maximizing |-> FALSE, moves |-> <<>>, best |-> 0, best_move |-> None,
     eval_score |-> 0, level |-> 0, move |-> None, hint_text |-> NoText]

NoRet == [kind |-> "none", score |-> 0, move |-> None, text |-> NoText, exc |-> ""]

NoCall == [fn |-> "idle", depth |-> 0, maximizing |-> FALSE, level |-> 0,
           move |-> None, board |-> NewBoard]

Idle == frames = <<>>
Top == frames[Len(frames)]
Caller == frames[Len(frames) - 1]
At(fn, pc) == ~Idle /\ Top.fn = fn /\ Top.pc = pc

SetTop(f) == frames' = [frames EXCEPT ![Len(frames)] = f]
\* the innermost call makes the call f
Invoke(self, f) == frames' = [frames EXCEPT ![Len(frames)] = self] \o <<f>>
\* the innermost call ends and its caller goes on as f
Resume(f) == frames' = SubSeq(frames, 1, Len(frames) - 2) \o <<f>>

ReturnScore(v) ==
    IF Len(frames) = 1
    THEN /\ frames' = <<>>
         /\ ret' = [NoRet EXCEPT !.kind = "score", !.score = v]
    ELSE /\ Resume([Caller EXCEPT !.pc = "got_score", !.eval_score = v])
         /\ ret' = ret

ReturnMove(m) ==
    IF Len(frames) = 1
    THEN /\ frames' = <<>>
         /\ ret' = [NoRet EXCEPT !.kind = "move", !.move = m]
    ELSE /\ Resume([Caller EXCEPT !.pc = "got_move", !.best_move = m])
         /\ ret' = ret

ReturnText(t) ==
    IF Len(frames) = 1
    THEN /\ frames' = <<>>
         /\ ret' = [NoRet EXCEPT !.kind = "text", !.text = t]
    ELSE /\ Resume([Caller EXCEPT !.pc = "got_text", !.hint_text = t])
         /\ ret' = ret

\* no frame of the program catches: an exception ends the outermost call
Raise(exc) ==
    /\ frames' = <<>>
    /\ ret' = [NoRet EXCEPT !.kind = "raise", !.exc = exc]

Max(a, b) == IF a >= b THEN a ELSE b
Min(a, b) == IF a <= b THEN a ELSE b

Begin(c, f) ==
    /\ Idle
    /\ call' = c
    /\ frames' = <<f>>
    /\ ret' = NoRet
    /\ npush' = 0
    /\ npop' = 0
    /\ pruned' = FALSE
    /\ UNCHANGED game

----------------------------------------------------------------------------
(* minimax *)

MinimaxFrame(depth, alpha, beta, maximizing) ==
    [NewFrame("minimax") EXCEPT !.depth = depth, !.alpha = alpha, !.beta = beta,
                                !.maximizing = maximizing]

\* if depth == 0 or board.is_game_over(): return evaluate_board(board)
MinimaxBase ==
    /\ At("minimax", "entry")
    /\ Top.depth = 0 \/ is_game_over(board)
    /\ ReturnScore(evaluate_board(board))
    /\ UNCHANGED <<game, board, call, npush, npop, pruned>>

\* max_eval = -inf (min_eval = +inf); for move in board.legal_moves
MinimaxEnter ==
    /\ At("minimax", "entry")
    /\ ~(Top.depth = 0 \/ is_game_over(board))
    /\ SetTop([Top EXCEPT !.pc = "loop",
                          !.best = IF Top.maximizing THEN NegInf ELSE PosInf,
                          !.moves = legal_moves(board)])
    /\ UNCHANGED <<game, board, call, ret, npush, npop, pruned>>

\* board.push(move); minimax(board, depth-1, alpha, beta, False) on the
\* maximizing side, minimax(board, depth-1, alpha, beta, True) on the other
MinimaxDescend ==
    /\ At("minimax", "loop")
    /\ Top.moves # <<>>
    /\ board' = push(board, Head(Top.moves))
    /\ npush' = npush + 1
    /\ Invoke([Top EXCEPT !.pc = "wait", !.moves = Tail(Top.moves),
                          !.move = Head(Top.moves)],
              MinimaxFrame(Top.depth - 1, Top.alpha, Top.beta, ~Top.maximizing))
    /\ UNCHANGED <<game, call, ret, npop, pruned>>

\* the cutoff test with its operands exchanged
CutoffExchanged(alpha, beta) == alpha <= beta

\* if beta <= alpha: break
Cutoff(alpha, beta) == beta <= alpha

\* minimax's loop body with the break placed before board.pop()
MinimaxAfterBreakFirst ==
    /\ At("minimax", "got_score")
    /\ LET f == Top
           best == IF f.maximizing THEN Max(f.best, f.eval_score)
                   ELSE Min(f.best, f.eval_score)
           alpha == IF f.maximizing THEN Max(f.alpha, f.eval_score) ELSE f.alpha
           beta == IF f.maximizing THEN f.beta ELSE Min(f.beta, f.eval_score)
           stop == Cutoff(alpha, beta)
       IN /\ SetTop([f EXCEPT !.pc = "loop", !.best = best, !.alpha = alpha,
                              !.beta = beta,
                              !.moves = IF stop THEN <<>> ELSE f.moves])
          /\ pruned' = (pruned \/ (stop /\ f.moves # <<>>))
          /\ board' = IF stop THEN board ELSE pop(board)
          /\ npop' = IF stop THEN npop ELSE npop + 1
    /\ UNCHANGED <<game, call, ret, npush>>

\* board.pop(); max_eval = max(max_eval, eval_score); alpha = max(alpha, eval_score)
\* (min_eval, beta and min for the minimizing side); if beta <= alpha: break
MinimaxAfter ==
    /\ At("minimax", "got_score")
    /\ board' = pop(board)
    /\ npop' = npop + 1
    /\ LET f == Top
           best == IF f.maximizing THEN Max(f.best, f.eval_score)
                   ELSE Min(f.best, f.eval_score)
           alpha == IF f.maximizing THEN Max(f.alpha, f.eval_score) ELSE f.alpha
           beta == IF f.maximizing THEN f.beta ELSE Min(f.beta, f.eval_score)
           stop == Cutoff(alpha, beta)
       IN /\ SetTop([f EXCEPT !.pc = "loop", !.best = best, !.alpha = alpha,
                              !.beta = beta,
                              !.moves = IF stop THEN <<>> ELSE f.moves])
          /\ pruned' = (pruned \/ (stop /\ f.moves # <<>>))
    /\ UNCHANGED <<game, call, ret, npush>>

\* return max_eval (min_eval)
MinimaxDone ==
    /\ At("minimax", "loop")
    /\ Top.moves = <<>>
    /\ ReturnScore(Top.best)
    /\ UNCHANGED <<game, board, call, npush, npop, pruned>>

CallMinimax ==
    \E depth \in Depths, maximizing \in BOOLEAN :
        /\ Begin([NoCall EXCEPT !.fn = "minimax", !.depth = depth,
                                !.maximizing = maximizing, !.board = board],
                 MinimaxFrame(depth, NegInf, PosInf, maximizing))
        /\ UNCHANGED board

----------------------------------------------------------------------------
(* find_best_move *)

FindFrame(depth) == [NewFrame("find_best_move") EXCEPT !.depth = depth]

\* best_move = None; best_value = -inf; for move in list(board.legal_moves)
FindEnter ==
    /\ At("find_best_move", "entry")
    /\ SetTop([Top EXCEPT !.pc = "loop", !.best_move = None, !.best = NegInf,
                          !.moves = legal_moves(board)])
    /\ UNCHANGED <<game, board, call, ret, npush, npop, pruned>>

\* board.push(move); minimax(board, depth-1, -inf, inf, False)
FindDescend ==
    /\ At("find_best_move", "loop")
    /\ Top.moves # <<>>
    /\ board' = push(board, Head(Top.moves))
    /\ npush' = npush + 1
    /\ Invoke([Top EXCEPT !.pc = "wait", !.moves = Tail(Top.moves),
                          !.move = Head(Top.moves)],
              MinimaxFrame(Top.depth - 1, NegInf, PosInf, FALSE))
    /\ UNCHANGED <<game, call, ret, npop, pruned>>

\* the root comparison letting a later move win a tie
BetterOrEqual(value, best_value) == value >= best_value

\* if value > best_value
Better(value, best_value) == value > best_value

\* board.pop(); if value > best_value: best_value = value; best_move = move
FindAfter ==
    /\ At("find_best_move", "got_score")
    /\ board' = pop(board)
    /\ npop' = npop + 1
    /\ SetTop(IF Better(Top.eval_score, Top.best)
              THEN [Top EXCEPT !.pc = "loop", !.best = Top.eval_score,
                               !.best_move = Top.move]
              ELSE [Top EXCEPT !.pc = "loop"])
    /\ UNCHANGED <<game, call, ret, npush, pruned>>

\* return best_move
FindDone ==
    /\ At("find_best_move", "loop")
    /\ Top.moves = <<>>
    /\ ReturnMove(Top.best_move)
    /\ UNCHANGED <<game, board, call, npush, npop, pruned>>

CallFindBestMove ==
    \E depth \in Depths :
        /\ Begin([NoCall EXCEPT !.fn = "find_best_move", !.depth = depth,
                                !.board = board],
                 FindFrame(depth))
        /\ UNCHANGED board

----------------------------------------------------------------------------
(* generate_hint *)

\* Python truth of a Color or of None: chess.WHITE is True, chess.BLACK is False
Truth(color) == color = "white"

HintFrame(move, level) ==
    [NewFrame("generate_hint") EXCEPT !.move = move, !.level = level]

\* piece = board.piece_at(best_move.from_square), with best_move None
HintNoMove ==
    /\ At("generate_hint", "entry")
    /\ Top.move = None
    /\ Raise("AttributeError")
    /\ UNCHANGED <<game, board, call, npush, npop, pruned>>

\* if level == 1: return "Try moving your ... from ..."
HintTier1 ==
    /\ At("generate_hint", "entry")
    /\ Top.move # None
    /\ Top.level = 1
    /\ ReturnText([tier |-> 1, note |-> ""])
    /\ UNCHANGED <<game, board, call, npush, npop, pruned>>

\* elif level == 2: return "... to ..." with its capture/check tag (the tag is
\* read off the move and the unchanged board; it is not modelled)
HintTier2 ==
    /\ At("generate_hint", "entry")
    /\ Top.move # None
    /\ Top.level = 2
    /\ ReturnText([tier |-> 2, note |-> ""])
    /\ UNCHANGED <<game, board, call, npush, npop, pruned>>

\* else: san = board.san(best_move); board.push(best_move)
HintTrial ==
    /\ At("generate_hint", "entry")
    /\ Top.move # None
    /\ Top.level \notin {1, 2}
    /\ board' = push(board, Top.move)
    /\ npush' = npush + 1
    /\ SetTop([Top EXCEPT !.pc = "trial"])
    /\ UNCHANGED <<game, call, ret, npop, pruned>>

\* 'Mate!' if outcome and outcome.winner else 'Winning line!'
Annotation(o) ==
    IF o.termination # "none" /\ Truth(o.winner) THEN "Mate!" ELSE "Winning line!"

\* tier 3 returning without board.pop()
HintReturnUnrestored ==
    /\ At("generate_hint", "trial")
    /\ ReturnText([tier |-> 3, note |-> Annotation(outcome(board))])
    /\ UNCHANGED <<game, board, call, npush, npop, pruned>>

\* outcome = board.outcome(); board.pop(); return "Solution: ..."
HintUndo ==
    /\ At("generate_hint", "trial")
    /\ ReturnText([tier |-> 3, note |-> Annotation(outcome(board))])
    /\ board' = pop(board)
    /\ npop' = npop + 1
    /\ UNCHANGED <<game, call, npush, pruned>>

CallGenerateHint ==
    \E level \in Tiers :
        \E move \in 1..Len(legal_moves(board)) :
            /\ Begin([NoCall EXCEPT !.fn = "generate_hint", !.level = level,
                                    !.move = legal_moves(board)[move],
                                    !.board = board],
                     HintFrame(legal_moves(board)[move], level))
            /\ UNCHANGED board

----------------------------------------------------------------------------
(* get_hint: the /hint route, behind the payment and request layers.  Its   *)
(* signature names Annotated, which the file does not import; the route is *)
(* modelled as written below that line.                                    *)

\* board = chess.Board(fen); best_move = find_best_move(board)
GetHintStart ==
    /\ At("get_hint", "entry")
    /\ Invoke([Top EXCEPT !.pc = "wait"], FindFrame(DefaultDepth))
    /\ UNCHANGED <<game, board, call, ret, npush, npop, pruned>>

\* hint_text = generate_hint(board, best_move, level)
GetHintMove ==
    /\ At("get_hint", "got_move")
    /\ Invoke([Top EXCEPT !.pc = "wait"], HintFrame(Top.best_move, Top.level))
    /\ UNCHANGED <<game, board, call, ret, npush, npop, pruned>>

\* san = board.san(best_move); uci = best_move.uci();
\* eval_score = minimax(board, depth=4, alpha=-inf, beta=inf, maximizing=True)
GetHintText ==
    /\ At("get_hint", "got_text")
    /\ Invoke([Top EXCEPT !.pc = "wait"], MinimaxFrame(EvalDepth, NegInf, PosInf, TRUE))
    /\ UNCHANGED <<game, board, call, ret, npush, npop, pruned>>

\* the response: level, hint, san, uci, evaluation
GetHintScore ==
    /\ At("get_hint", "got_score")
    /\ frames' = <<>>
    /\ ret' = [NoRet EXCEPT !.kind = "response", !.move = Top.best_move,
                            !.text = Top.hint_text, !.score = Top.eval_score]
    /\ UNCHANGED <<game, board, call, npush, npop, pruned>>

CallGetHint ==
    \E level \in Tiers :
        /\ Begin([NoCall EXCEPT !.fn = "get_hint", !.level = level],
                 [NewFrame("get_hint") EXCEPT !.level = level])
        /\ board' = NewBoard

----------------------------------------------------------------------------
(* The specification *)

Init ==
    /\ game \in Games
    /\ board = NewBoard
    /\ frames = <<>>
    /\ call = NoCall
    /\ ret = NoRet
    /\ npush = 0
    /\ npop = 0
    /\ pruned = FALSE

Next ==
    \/ CallMinimax
    \/ CallFindBestMove
    \/ CallGenerateHint
    \/ CallGetHint
    \/ MinimaxBase
    \/ MinimaxEnter
    \/ MinimaxDescend
    \/ MinimaxAfter
    \/ MinimaxDone
    \/ FindEnter
    \/ FindDescend
    \/ FindAfter
    \/ FindDone
    \/ HintNoMove
    \/ HintTier1
    \/ HintTier2
    \/ HintTrial
    \/ HintUndo
    \/ GetHintStart
    \/ GetHintMove
    \/ GetHintText
    \/ GetHintScore

Spec == Init /\ [][Next]_vars

----------------------------------------------------------------------------
(* What the claims are stated with *)

\* the outermost call fn has returned or raised
Finished(fn) == Idle /\ call.fn = fn /\ ret.kind # "none"

Moves(b) == 1..Len(legal_moves(b))

SetMax(S) == CHOOSE x \in S : \A y \in S : y <= x
SetMin(S) == CHOOSE x \in S : \A y \in S : x <= y

\* minimax without alpha and beta: every legal move of every node is searched
RECURSIVE Exhaustive(_, _, _)
Exhaustive(b, depth, maximizing) ==
    IF depth = 0 \/ is_game_over(b) THEN evaluate_board(b)
    ELSE LET scores == {Exhaustive(push(b, m), depth - 1, ~maximizing) : m \in Moves(b)}
         IN IF maximizing THEN SetMax(scores) ELSE SetMin(scores)

\* the score of the root move m when its child is searched exhaustively
ChildScore(b, depth, m) == Exhaustive(push(b, m), depth - 1, FALSE)

\* find_best_move's root loop over exhaustively scored children
RECURSIVE ExhaustiveChoice(_, _, _, _, _)
ExhaustiveChoice(b, depth, moves, best_move, best_value) ==
    IF moves = <<>> THEN best_move
    ELSE IF ChildScore(b, depth, Head(moves)) > best_value
    THEN ExhaustiveChoice(b, depth, Tail(moves), Head(moves),
                          ChildScore(b, depth, Head(moves)))
    ELSE ExhaustiveChoice(b, depth, Tail(moves), best_move, best_value)

ExhaustiveBest(b, depth) == ExhaustiveChoice(b, depth, legal_moves(b), None, NegInf)

\* the moves the running calls have applied and not yet undone, outermost first
Applied(f) ==
    \/ f.fn \in {"minimax", "find_best_move"} /\ f.pc \in {"wait", "got_score"}
    \/ f.fn = "generate_hint" /\ f.pc = "trial"

RECURSIVE Pending(_)
Pending(fs) ==
    IF fs = <<>> THEN <<>>
    ELSE (IF Applied(Head(fs)) THEN <<Head(fs).move>> ELSE <<>>) \o Pending(Tail(fs))

\* material counted piece kind by piece kind
Count(pieces, t, c) == Cardinality({i \in 1..Len(pieces) : pieces[i] = Piece(t, c)})
Balance(pieces, t) == Count(pieces, t, "white") - Count(pieces, t, "black")
Material(pieces) ==
    Balance(pieces, "P") + 3 * Balance(pieces, "N") + 3 * Balance(pieces, "B")
    + 5 * Balance(pieces, "R") + 9 * Balance(pieces, "Q") + 0 * Balance(pieces, "K")

\* the legal moves of b that give checkmate at once
MatingMoves(b) == {m \in Moves(b) : Pos(push(b, m)).kind = "checkmate"}

----------------------------------------------------------------------------
(* C1 *)

\* C1: pruning equivalence.  For every depth >= 1, minimax called with the
\* full window returns the score of exhaustive minimax of the same depth and
\* maximizing flag (as an outermost call, as the call find_best_move makes
\* for each root child, and as get_hint's evaluation), and find_best_move
\* returns the move its root loop returns over exhaustively scored children.
PruningEquivalence ==
    /\ (Finished("minimax") /\ call.depth >= 1)
         => (ret.kind = "score"
             /\ ret.score = Exhaustive(call.board, call.depth, call.maximizing))
    /\ (At("find_best_move", "got_score") /\ Top.depth >= 1)
         => Top.eval_score = Exhaustive(board, Top.depth - 1, FALSE)
    /\ (Finished("find_best_move") /\ call.depth >= 1)
         => (ret.kind = "move" /\ ret.move = ExhaustiveBest(call.board, call.depth))
    /\ (Finished("get_hint") /\ ret.kind = "response")
         => (/\ ret.move = ExhaustiveBest(NewBoard, DefaultDepth)
             /\ ret.score = Exhaustive(NewBoard, EvalDepth, TRUE))

\* a find_best_move of depth 3 or more has returned a move after a loop of its
\* search was left by the pruning break with moves untried
PrunedSearchReturned ==
    /\ Finished("find_best_move")
    /\ call.depth >= 3
    /\ pruned
    /\ ret.move # None

----------------------------------------------------------------------------
(* C2 *)

\* C2: depth rejection.  A find_best_move call with depth <= 0, here on a
\* position that has legal moves, applies no move and ends by raising a
\* configuration error, never by returning a move.  (For minimax, depth 0 is
\* the base case its own recursion reaches.)
DepthRejected ==
    (/\ call.fn = "find_best_move"
     /\ call.depth <= 0
     /\ legal_moves(call.board) # <<>>)
        => (npush = 0 /\ (Idle => ret.kind = "raise"))

----------------------------------------------------------------------------
(* C3 *)

\* C3: no-legal-move signalling.  find_best_move, called with a depth >= 1 on
\* a position without legal moves, raises: it never returns a placeholder.
NoLegalMoveSignalled ==
    (/\ Finished("find_best_move")
     /\ call.depth >= 1
     /\ legal_moves(call.board) = <<>>)
        => ret.kind = "raise"

----------------------------------------------------------------------------
(* C4 *)

\* C4: hint frame condition.  Tiers 1 and 2 apply no move; tier 3 applies its
\* one trial move and undoes it; when generate_hint has returned, the board
\* (move stack, side to move), the position and its legal moves are those of
\* the call.
HintFrameCondition ==
    call.fn = "generate_hint" =>
        /\ call.level \in {1, 2} => (board = call.board /\ npush = 0 /\ npop = 0)
        /\ call.level = 3 =>
              IF At("generate_hint", "trial")
              THEN board = push(call.board, call.move) /\ npush = 1 /\ npop = 0
              ELSE board = call.board /\ npush = npop /\ npush <= 1
        /\ Idle => /\ ret.kind = "text"
                   /\ board = call.board
                   /\ Pos(board) = Pos(call.board)
                   /\ legal_moves(board) = legal_moves(call.board)
                   /\ call.level = 3 => (npush = 1 /\ npop = 1)

\* a tier-3 hint has returned after its trial move
HintTier3Returned ==
    /\ Finished("generate_hint")
    /\ call.level = 3
    /\ ret.text.tier = 3
    /\ npush = 1

----------------------------------------------------------------------------
(* C5 *)

\* C5: tier-3 annotation.  The tier-3 hint says 'Mate!' exactly when the
\* position after the move is a checkmate, whichever side gave it, and
\* 'Winning line!' otherwise.
Tier3Annotation ==
    (Finished("generate_hint") /\ call.level = 3)
        => /\ ret.text.note \in {"Mate!", "Winning line!"}
           /\ ret.text.note = "Mate!"
                <=> Pos(push(call.board, call.move)).kind = "checkmate"

----------------------------------------------------------------------------
(* C6 *)

\* C6 as stated: with White to move and a move that mates at once,
\* find_best_move at every depth >= 1 returns a move that mates at once;
\* evaluate_board after it is +10000 and its tier-3 annotation is 'Mate!'.
MateInOneAtEveryDepth ==
    (/\ Finished("find_best_move")
     /\ call.depth >= 1
     /\ call.board.turn = "white"
     /\ MatingMoves(call.board) # {})
        => /\ ret.move \in MatingMoves(call.board)
           /\ evaluate_board(push(call.board, ret.move)) = 10000
           /\ Annotation(outcome(push(call.board, ret.move))) = "Mate!"

\* C6 as amended: with White to move and a move that mates at once,
\* find_best_move at every depth >= 1 returns a move whose searched score is
\* +10000; at depth 1 and 2 that move mates at once, evaluate_board after it
\* is +10000 and its tier-3 annotation is 'Mate!'.
MateInOneFound ==
    /\ (/\ Finished("find_best_move")
        /\ call.depth >= 1
        /\ call.board.turn = "white"
        /\ MatingMoves(call.board) # {})
          => /\ ret.move \in Moves(call.board)
             /\ ChildScore(call.board, call.depth, ret.move) = 10000
             /\ call.depth <= 2 =>
                   /\ ret.move \in MatingMoves(call.board)
                   /\ evaluate_board(push(call.board, ret.move)) = 10000
                   /\ Annotation(outcome(push(call.board, ret.move))) = "Mate!"
    /\ (/\ Finished("get_hint")
        /\ game.turn = "white"
        /\ MatingMoves(NewBoard) # {})
          => /\ ret.kind = "response"
             /\ ret.move \in Moves(NewBoard)
             /\ ChildScore(NewBoard, DefaultDepth, ret.move) = 10000

\* find_best_move at depth 1 or 2 has returned a mating move of a position
\* with White to move that also has a move that does not mate
MateInOneReturned ==
    /\ Finished("find_best_move")
    /\ call.depth \in {1, 2}
    /\ call.board.turn = "white"
    /\ ret.move \in MatingMoves(call.board)
    /\ Moves(call.board) \ MatingMoves(call.board) # {}

----------------------------------------------------------------------------
(* C7 *)

\* C7: terminal scoring with precedence.  On every position a call is made
\* on or a trial move leads to (every position the board takes),
\* evaluate_board is +10000 when White gave checkmate (Black is mated),
\* -10000 when Black gave checkmate, 0 at every drawn end whatever the
\* material, and the signed material sum when the game is not over.
TerminalScoring ==
    (~Idle /\ Top.pc \in {"entry", "trial"}) =>
        LET kind == Pos(board).kind
            score == evaluate_board(board)
        IN /\ (kind = "checkmate" /\ board.turn = "black") => score = 10000
           /\ (kind = "checkmate" /\ board.turn = "white") => score = 0 - 10000
           /\ kind \in {"stalemate", "dead"} => score = 0
           /\ kind = "ongoing" => score = Material(piece_map(board))

\* minimax is about to score a position in which Black has given checkmate
\* while White is ahead in material
MatedWhileAhead ==
    /\ At("minimax", "entry")
    /\ Pos(board).kind = "checkmate"
    /\ board.turn = "white"
    /\ Material(piece_map(board)) > 0

----------------------------------------------------------------------------
(* C8 *)

\* C8: root selection.  At depth >= 1 on a position with a legal move,
\* find_best_move returns a legal move: the first, in legal_moves order, of
\* the moves whose child score is greatest.
RootSelection ==
    /\ (/\ Finished("find_best_move")
        /\ call.depth >= 1
        /\ legal_moves(call.board) # <<>>)
          => /\ ret.kind = "move"
             /\ ret.move \in Moves(call.board)
             /\ \A m \in Moves(call.board) :
                   /\ ChildScore(call.board, call.depth, m)
                        <= ChildScore(call.board, call.depth, ret.move)
                   /\ m < ret.move =>
                        ChildScore(call.board, call.depth, m)
                          < ChildScore(call.board, call.depth, ret.move)
    /\ (/\ At("get_hint", "got_move")
        /\ legal_moves(NewBoard) # <<>>)
          => /\ Top.best_move \in Moves(NewBoard)
             /\ \A m \in Moves(NewBoard) :
                   /\ ChildScore(NewBoard, DefaultDepth, m)
                        <= ChildScore(NewBoard, DefaultDepth, Top.best_move)
                   /\ m < Top.best_move =>
                        ChildScore(NewBoard, DefaultDepth, m)
                          < ChildScore(NewBoard, DefaultDepth, Top.best_move)

\* find_best_move has returned the first of two root moves of equal score
TieWonByFirst ==
    /\ Finished("find_best_move")
    /\ call.depth >= 1
    /\ Len(legal_moves(call.board)) = 2
    /\ ret.move = 1
    /\ ChildScore(call.board, call.depth, 1) = ChildScore(call.board, call.depth, 2)

----------------------------------------------------------------------------
(* C9 *)

\* the depth budget of the outermost call
Budget == IF call.fn = "get_hint" THEN DefaultDepth ELSE call.depth

\* C9: search stack discipline.  During a find_best_move or minimax call of
\* depth >= 1 (and during get_hint, which makes both at depth 4) the board is
\* the position of the call plus exactly the moves of the loops that are
\* inside a descent: a loop between two candidates, or left by the pruning
\* break, has undone its move.  Every push beyond those is matched by a pop,
\* the moves applied never exceed the depth budget, only the innermost call
\* runs, and when the call has returned the board is the board of the call.
StackDiscipline ==
    ((call.fn \in {"find_best_move", "minimax"} /\ call.depth >= 1) \/ call.fn = "get_hint")
        => LET applied == Pending(frames)
           IN /\ board.move_stack = call.board.move_stack \o applied
              /\ board.turn = IF Len(applied) % 2 = 0
                              THEN call.board.turn ELSE Other(call.board.turn)
              /\ npush = npop + Len(applied)
              /\ Len(applied) <= Budget
              /\ \A i \in 1..(Len(frames) - 1) : frames[i].pc = "wait"
              /\ Idle => board = call.board

\* a minimax loop two or more calls deep has just been left by the pruning
\* break, its last move undone, with moves left untried
BreakTaken ==
    /\ call.fn \in {"find_best_move", "minimax"}
    /\ call.depth >= 1
    /\ At("minimax", "loop")
    /\ Len(frames) >= 3
    /\ Top.moves = <<>>
    /\ Cutoff(Top.alpha, Top.beta)
    /\ pruned
    /\ npop >= 2

----------------------------------------------------------------------------
(* C10 *)

\* C10: side-to-move perspective.  Every minimax call made by find_best_move
\* (of depth >= 1) and by get_hint maximizes exactly when White is to move at
\* its node, and on a position with Black to move find_best_move returns a
\* move of least score for White among the root moves, each child searched
\* from its own side.
SideToMovePerspective ==
    /\ (/\ (call.fn = "find_best_move" /\ call.depth >= 1) \/ call.fn = "get_hint"
        /\ At("minimax", "entry"))
          => (Top.maximizing <=> board.turn = "white")
    /\ (/\ Finished("find_best_move")
        /\ call.depth >= 1
        /\ call.board.turn = "black"
        /\ legal_moves(call.board) # <<>>)
          => /\ ret.move \in Moves(call.board)
             /\ \A m \in Moves(call.board) :
                   Exhaustive(push(call.board, ret.move), call.depth - 1, TRUE)
                     <= Exhaustive(push(call.board, m), call.depth - 1, TRUE)

====
